---- MODULE Spec2Model ----
(***************************************************************************)
(* Model of the assignment / quiz generator.                               *)
(*                                                                         *)
(*   src/app.py             the local heuristic pipeline: split_sentences, *)
(*                          extract_keywords, make_assignment_prompts,     *)
(*                          generate_mcqs, generate_from_text              *)
(*   src/quiz_generator.py  the remote-model generator QuizGenerator       *)
(*                                                                         *)
(* Strings are sequences of one-character strings, so that lower(),        *)
(* strip(), slicing, the regular expressions and k + "s" are computed and  *)
(* not assumed.                                                            *)
(***************************************************************************)
EXTENDS Integers, Sequences, FiniteSets, TLC

(***************************************************************************)
(* Characters and strings                                                  *)
(***************************************************************************)

UpperSeq ==
    << "A","B","C","D","E","F","G","H","I","J","K","L","M",
       "N","O","P","Q","R","S","T","U","V","W","X","Y","Z" >>

LowerSeq ==
    << "a","b","c","d","e","f","g","h","i","j","k","l","m",
       "n","o","p","q","r","s","t","u","v","w","x","y","z" >>

Range(s) == { s[k] : k \in 1..Len(s) }

UpperChars == Range(UpperSeq)

LowerChars == Range(LowerSeq)

DigitChars == { "0","1","2","3","4","5","6","7","8","9" }

\* [a-zA-Z]
IsLetter(c) == c \in UpperChars \cup LowerChars

\* \w of the re module (for the ASCII characters the model uses)
IsWordChar(c) == IsLetter(c) \/ c \in DigitChars \/ c = "_"

\* \s of the re module, and what str.strip() / str.rstrip() remove
IsSpace(c) == c \in { " ", "\t", "\n", "\r" }

\* str.lower() on one character
LowerChar(c) ==
    IF c \in UpperChars
    THEN LowerSeq[CHOOSE k \in 1..Len(UpperSeq) : UpperSeq[k] = c]
    ELSE c

\* str.lower()
Lower(s) == [k \in 1..Len(s) |-> LowerChar(s[k])]

\* s[:n]
Take(s, n) == SubSeq(s, 1, IF n < Len(s) THEN n ELSE Len(s))

\* s[n:]  (n counted from 0, as in Python)
Drop(s, n) == SubSeq(s, n + 1, Len(s))

RECURSIVE RStrip(_)
\* str.rstrip()
RStrip(s) ==
    IF s # << >> /\ IsSpace(s[Len(s)]) THEN RStrip(SubSeq(s, 1, Len(s) - 1)) ELSE s

RECURSIVE LStrip(_)
\* str.lstrip()
LStrip(s) ==
    IF s # << >> /\ IsSpace(s[1]) THEN LStrip(Tail(s)) ELSE s

\* str.strip()
Strip(s) == RStrip(LStrip(s))

\* x in list
Contains(s, x) == \E k \in 1..Len(s) : s[k] = x

\* list.index(x), counted from 0; -1 stands for the ValueError of a missing x
IndexOf(s, x) ==
    IF Contains(s, x)
    THEN (CHOOSE k \in 1..Len(s) : s[k] = x /\ \A j \in 1..(k - 1) : s[j] # x) - 1
    ELSE -1

\* list(dict.fromkeys(s)): the first occurrence of every element, in order
Dedupe(s) ==
    LET firsts == { k \in 1..Len(s) : \A j \in 1..(k - 1) : s[j] # s[k] }
    IN  [m \in 1..Cardinality(firsts) |->
            s[CHOOSE k \in firsts : Cardinality({ j \in firsts : j <= k }) = m]]

\* s * n
Rep(s, n) == [k \in 1..(Len(s) * n) |-> s[((k - 1) % Len(s)) + 1]]

(***************************************************************************)
(* Program constants                                                       *)
(***************************************************************************)

\* for i in range(3)
QuestionCount == 3

\* while len(distractors) < 3 ... ; distractors[:3]
DistractorCount == 3

\* ... and tries < 30
MaxTries == 30

\* long_sents[0][:240]
ExcerptMax == 240

\* extract_keywords(text, top_n=8)
DefaultTopN == 8

\* the fallback pool of generate_mcqs
FallbackPool ==
    << << "c","o","n","c","e","p","t" >>,
       << "m","e","t","h","o","d" >>,
       << "r","e","s","u","l","t" >>,
       << "t","h","e","o","r","y" >>,
       << "m","o","d","e","l" >> >>

(***************************************************************************)
(* Bounds of the model                                                     *)
(***************************************************************************)

\* longest keyword sequence handed directly to generate_mcqs
MaxKeywords == 2

\* longest list whose shuffle is explored over all its permutations
MaxPermLen == 5

\* the words keyword sequences are drawn from: "cats" is the plural of "cat",
\* so that pool + plurals holds a duplicate for dict.fromkeys to drop
WCat == << "c","a","t" >>

WCats == << "c","a","t","s" >>

WDog == << "d","o","g" >>

KeywordVocab == { WCat, WCats, WDog }

KeywordSeqs == UNION { [1..n -> KeywordVocab] : n \in 0..MaxKeywords }

(***************************************************************************)
(* split_sentences                                                         *)
(***************************************************************************)

\* the elements of s at the positions in idx, in order
Pick(s, idx) ==
    [m \in 1..Cardinality(idx) |->
        s[CHOOSE k \in idx : Cardinality({ j \in idx : j <= k }) = m]]

\* re.sub(r"\s+", " ", s): every run of whitespace becomes one space
CollapseSpaces(s) ==
    LET kept == { k \in 1..Len(s) : ~IsSpace(s[k]) \/ k = 1 \/ ~IsSpace(s[k - 1]) }
        one  == Pick(s, kept)
    IN  [k \in 1..Len(one) |-> IF IsSpace(one[k]) THEN " " ELSE one[k]]

\* [.!?]
IsTerminator(c) == c \in { ".", "!", "?" }

\* where (?<=[.!?])\s+ first matches in s: the first whitespace that follows a
\* terminator; 0 when there is none
BreakStart(s) ==
    LET at == { k \in 2..Len(s) : IsSpace(s[k]) /\ IsTerminator(s[k - 1]) }
    IN  IF at = { } THEN 0 ELSE CHOOSE k \in at : \A j \in at : k <= j

\* the last position of the whitespace run that starts at k (\s+ is greedy)
RunEnd(s, k) ==
    CHOOSE e \in k..Len(s) :
        /\ \A j \in k..e : IsSpace(s[j])
        /\ e = Len(s) \/ ~IsSpace(s[e + 1])

RECURSIVE ReSplit(_)
\* re.split(r"(?<=[.!?])\s+", s)
ReSplit(s) ==
    LET k == BreakStart(s)
    IN  IF k = 0 THEN << s >>
        ELSE << SubSeq(s, 1, k - 1) >> \o ReSplit(Drop(s, RunEnd(s, k)))

\* [p.strip() for p in parts if p.strip()]
StripParts(parts) ==
    LET kept == { k \in 1..Len(parts) : Strip(parts[k]) # << >> }
        some == Pick(parts, kept)
    IN  [k \in 1..Len(some) |-> Strip(some[k])]

\* lines 33-36
split_sentences(t) == StripParts(ReSplit(CollapseSpaces(Strip(t))))

(***************************************************************************)
(* extract_keywords                                                        *)
(***************************************************************************)

\* lines 52-77
Stopwords ==
    {
      << "t","h","e" >>, << "a","n","d" >>, << "i","s" >>, << "i","n" >>,
      << "t","o" >>, << "o","f" >>, << "a" >>, << "a","n" >>,
      << "f","o","r" >>, << "o","n" >>, << "w","i","t","h" >>,
      << "t","h","a","t" >>, << "t","h","i","s" >>, << "a","r","e" >>,
      << "a","s" >>, << "b","y" >>, << "f","r","o","m" >>, << "b","e" >>,
      << "o","r" >>, << "i","t" >>, << "w","e" >>, << "y","o","u" >>,
      << "t","h","e","y" >>, << "w","h","i","c","h" >>
    }

\* \b before position k of s (k = Len(s) + 1 is the end of s): exactly one of the
\* characters on its two sides is a word character
Boundary(s, k) ==
    LET left  == k > 1 /\ IsWordChar(s[k - 1])
        right == k <= Len(s) /\ IsWordChar(s[k])
    IN  left # right

\* the length of the match of \b[a-zA-Z]{3,}\b that starts at position k of s,
\* 0 for none: the longest run of at least 3 letters with \b on both sides
MatchLen(s, k) ==
    LET lens == { n \in 3..(Len(s) - k + 1) :
                    /\ \A j \in k..(k + n - 1) : IsLetter(s[j])
                    /\ Boundary(s, k + n) }
    IN  IF ~Boundary(s, k) \/ lens = { } THEN 0
        ELSE CHOOSE n \in lens : \A m \in lens : m <= n

RECURSIVE FindAllFrom(_, _)
\* the matches re.findall finds in s from position k on, left to right, not
\* overlapping
FindAllFrom(s, k) ==
    IF k > Len(s) THEN << >>
    ELSE IF MatchLen(s, k) > 0
    THEN << SubSeq(s, k, k + MatchLen(s, k) - 1) >> \o FindAllFrom(s, k + MatchLen(s, k))
    ELSE FindAllFrom(s, k + 1)

\* re.findall(r"\b[a-zA-Z]{3,}\b", s)
FindWords(s) == FindAllFrom(s, 1)

\* [w for w in words if w not in stopwords]
Candidates(ws) == Pick(ws, { k \in 1..Len(ws) : ws[k] \notin Stopwords })

\* InsertPos of a sort that is not stable: x goes before the entries of its key
InsertPosUnstable(sorted, x) ==
    Cardinality({ k \in 1..Len(sorted) : sorted[k].key > x.key })

\* where x goes in a list sorted by falling key: behind every entry whose key
\* is not smaller (the sort is stable)
InsertPos(sorted, x) ==
    Cardinality({ k \in 1..Len(sorted) : sorted[k].key >= x.key })

RECURSIVE SortDesc(_)
\* sorted(items, key=..., reverse=True) on entries [key, val]: falling keys,
\* entries of equal key in their original order
SortDesc(items) ==
    IF items = << >> THEN << >>
    ELSE LET front == SortDesc(SubSeq(items, 1, Len(items) - 1))
             x     == items[Len(items)]
             at    == InsertPos(front, x)
         IN  SubSeq(front, 1, at) \o << x >> \o SubSeq(front, at + 1, Len(front))

\* Counter(cands).most_common(n): the counter's keys stand in the order they were
\* first inserted; most_common sorts them by falling count and keeps the first n
MostCommon(cands, n) ==
    LET keys   == Dedupe(cands)
        items  == [k \in 1..Len(keys) |->
                     [key |-> Cardinality({ j \in 1..Len(cands) : cands[j] = keys[k] }),
                      val |-> keys[k]]]
        ranked == SortDesc(items)
    IN  [k \in 1..(IF n < Len(ranked) THEN n ELSE Len(ranked)) |-> ranked[k].val]

\* line 78
WordsOf(t) == FindWords(Lower(t))

\* lines 78-82
extract_keywords(t, n) == MostCommon(Candidates(WordsOf(t)), n)

(***************************************************************************)
(* make_assignment_prompts                                                 *)
(***************************************************************************)

\* A prompt is a template with the values its {...} fields are filled with.

ExcerptTemplate ==
    "Read the following excerpt and write a 800-1200 word essay: \"{example}\". Discuss its main claims and implications, and relate them to broader concepts from the document."

SummaryTemplate ==
    "Write an 800-1200 word essay summarising the main ideas of the provided text, identifying two areas for further investigation."

CompareTemplate ==
    "Compare and contrast the roles of '{k1}' and '{k2}' as presented in the text. In your answer, evaluate strengths and weaknesses of the arguments and suggest practical applications or experiments to test them."

ThemesTemplate ==
    "Identify two central themes from the document and critically evaluate their significance. Provide examples and suggest follow-up questions."

\* sorted(sentences, key=len, reverse=True)
LongSents(sents) ==
    LET ranked == SortDesc([k \in 1..Len(sents) |-> [key |-> Len(sents[k]), val |-> sents[k]]])
    IN  [k \in 1..Len(ranked) |-> ranked[k].val]

\* Excerpt without rstrip()
ExcerptUnstripped(sent) == Take(sent, ExcerptMax)

\* long_sents[0][:240].rstrip()
Excerpt(sent) == RStrip(Take(sent, ExcerptMax))

\* lines 99-113
FirstPrompt(sents) ==
    IF LongSents(sents) # << >>
    THEN [template |-> ExcerptTemplate, args |-> << Excerpt(LongSents(sents)[1]) >>]
    ELSE [template |-> SummaryTemplate, args |-> << >>]

\* lines 116-127
SecondPrompt(kw) ==
    IF Len(kw) >= 2
    THEN [template |-> CompareTemplate, args |-> << kw[1], kw[2] >>]
    ELSE [template |-> ThemesTemplate, args |-> << >>]

\* lines 99-129
make_assignment_prompts(sents, kw) == << FirstPrompt(sents), SecondPrompt(kw) >>

(***************************************************************************)
(* Inputs                                                                  *)
(***************************************************************************)

\* most pieces of a text handed directly to extract_keywords
MaxPieces == 4

\* largest top_n tried besides the default
MaxTopN == 2

\* longest sentence list handed directly to make_assignment_prompts
MaxSents == 2

\* longest list a model reply holds
MaxItems == 2

\* most blanks on either side of a content
MaxPad == 1

RECURSIVE Flatten(_)
\* the concatenation of a list of strings
Flatten(parts) == IF parts = << >> THEN << >> ELSE Head(parts) \o Flatten(Tail(parts))

\* the pieces texts are made of: a capitalised and a lower-case spelling of one
\* word, words that tie in frequency, a stopword with a word shorter than 3
\* letters, and a word that runs into a digit
Pieces ==
    { << "C","a","t"," " >>,
      << "c","a","t","."," " >>,
      << "d","o","g"," " >>,
      << "e","m","u"," " >>,
      << "T","h","e"," ","o","x"," " >>,
      << "d","o","g","1"," " >> }

Texts == { Flatten(ps) : ps \in UNION { [1..n -> Pieces] : n \in 0..MaxPieces } }

TopNs == (1..MaxTopN) \cup { DefaultTopN }

\* the sentences sentence lists are made of: two of equal length, a longer one,
\* one whose 240th character is a space, and one as long as that
Sentences ==
    { << "A","b","." >>, << "C","d","." >>, << "A","b","c","d","." >>,
      Rep(<< "x" >>, ExcerptMax - 1) \o << " ","y","z","." >>,
      Rep(<< "y" >>, ExcerptMax - 1 + Len(<< " ","y","z","." >>)) }

SentenceSeqs == UNION { [1..n -> Sentences] : n \in 0..MaxSents }

\* the documents handed to generate_from_text: the empty one, one with a
\* sentence and no keyword, one with a single keyword, one with no terminator,
\* and one with three keywords that tie
Documents ==
    { << >>,
      << "T","h","e"," ","o","x","." >>,
      << "C","a","t","."," ","C","a","t","."," ","C","a","t","." >>,
      << "C","a","t"," ","d","o","g" >>,
      << "C","a","t","s"," ","c","h","a","s","e"," ","d","o","g","s","."," "," ","D","o","g","s"," ","c","h","a","s","e"," ","c","a","t","s","!" >> }

(***************************************************************************)
(* State                                                                   *)
(***************************************************************************)

VARIABLES
    entry,        \* the function the caller invoked
    pc,           \* where the call stands
    explore,      \* which random call sites this behaviour explores exhaustively
    text,         \* generate_from_text / extract_keywords: the input text
    top_n,        \* extract_keywords: top_n
    words,        \* extract_keywords: words (re.findall on text.lower())
    sentences,    \* split_sentences' result / make_assignment_prompts' input
    keywords,     \* extract_keywords' result / the keywords argument
    prompts,      \* make_assignment_prompts: prompts
    pool,         \* generate_mcqs: pool
    all_terms,    \* generate_mcqs: all_terms
    i,            \* generate_mcqs: the loop variable
    correct,      \* generate_mcqs: correct
    distractors,  \* generate_mcqs: distractors
    tries,        \* generate_mcqs: tries
    mcqs,         \* generate_mcqs: mcqs, a list of [correct, options, correct_index]
    error,        \* the exception that left the call, "" for none
    api_key,      \* QuizGenerator: what os.getenv returned; then self.api_key
    content,      \* QuizGenerator: the content argument
    reply,        \* QuizGenerator: what the last model call came back with
    calls,        \* QuizGenerator: the model calls made so far
    assignments,  \* QuizGenerator: what generate_assignments returned
    quiz,         \* QuizGenerator: what generate_quiz returned
    caught        \* QuizGenerator: the exceptions an except clause swallowed

mcqVars == << pool, all_terms, i, correct, distractors, tries, mcqs >>

textVars == << text, top_n, words, sentences, prompts >>

appVars == << explore, text, top_n, words, sentences, keywords, prompts,
              pool, all_terms, i, correct, distractors, tries, mcqs >>

remoteVars == << api_key, content, reply, calls, assignments, quiz, caught >>

vars == << entry, pc, explore, text, top_n, words, sentences, keywords, prompts,
           pool, all_terms, i, correct, distractors, tries, mcqs, error,
           api_key, content, reply, calls, assignments, quiz, caught >>

(***************************************************************************)
(* The random source.  random.shuffle may leave a list in any order and    *)
(* random.choice may return any element.  generate_mcqs draws at four      *)
(* groups of call sites: the shuffle of all_terms, and the draws and the   *)
(* option shuffle of each of the three questions.  The iterations of the   *)
(* loop read only pool, all_terms and i, never mcqs, so the outcomes of    *)
(* one group do not change what another can produce.  A behaviour explores *)
(* every outcome of the group `explore` names and takes one fixed outcome  *)
(* at the others; the behaviours together explore every outcome of every   *)
(* call site.  With a single distinct keyword all groups are explored at   *)
(* once ("all").                                                           *)
(***************************************************************************)

QuestionSite == << "q0", "q1", "q2" >>

ExploreModes(kw) ==
    { "terms", "q0", "q1", "q2" } \cup
    (IF Cardinality(Range(kw)) = 1 THEN { "all" } ELSE { })

Explored(site) == explore \in { site, "all" }

\* the injective maps of 1..n onto itself
Bijections ==
    [n \in 0..MaxPermLen |->
        { p \in [1..n -> 1..n] : \A a, b \in 1..n : p[a] = p[b] => a = b }]

PermutationsOf(s) == { [k \in 1..Len(s) |-> s[p[k]]] : p \in Bijections[Len(s)] }

Rotations(s) ==
    { [k \in 1..Len(s) |-> s[((k + r - 1) % Len(s)) + 1]] : r \in 0..(Len(s) - 1) }

\* random.shuffle(s): the orders s may be left in
ShuffleOutcomes(s, site) ==
    IF ~Explored(site) \/ Len(s) = 0 THEN { s }
    ELSE IF Len(s) <= MaxPermLen THEN PermutationsOf(s)
    ELSE Rotations(s)

\* the fixed draw of an unexplored site: the first term that would be accepted
FirstFresh(terms, cor, taken) ==
    IF \E k \in 1..Len(terms) : terms[k] # cor /\ ~Contains(taken, terms[k])
    THEN terms[CHOOSE k \in 1..Len(terms) :
                 /\ terms[k] # cor /\ ~Contains(taken, terms[k])
                 /\ \A j \in 1..(k - 1) : terms[j] = cor \/ Contains(taken, terms[j])]
    ELSE terms[1]

\* random.choice(terms): the elements it may return
ChoiceOutcomes(terms, cor, taken, site) ==
    IF Explored(site) THEN Range(terms) ELSE { FirstFresh(terms, cor, taken) }

(***************************************************************************)
(* generate_mcqs                                                           *)
(***************************************************************************)

\* MakePool without the fallback: keywords[:]
MakePoolNoFallback(kw) == kw

\* keywords[:] or [...]
MakePool(kw) == IF kw # << >> THEN kw ELSE FallbackPool

\* k + "s"
Plural(k) == k \o << "s" >>

\* AllTerms with the fallback terms added to every universe
AllTermsWithFallback(p) ==
    Dedupe(p \o [k \in 1..Len(p) |-> p[k] \o << "s" >>] \o FallbackPool)

\* list(dict.fromkeys(pool + [k + "s" for k in pool]))
AllTerms(p) == Dedupe(p \o [k \in 1..Len(p) |-> Plural(p[k])])

\* pool[i % len(pool)]
CorrectFor(p, n) == p[(n % Len(p)) + 1]

\* Accepts without the test against the correct answer
AcceptsAnyNew(candidate, cor, taken) == ~Contains(taken, candidate)

\* Accepts without the test against the distractors already chosen
AcceptsNotCorrect(candidate, cor, taken) == candidate # cor

\* candidate != correct and candidate not in distractors
Accepts(candidate, cor, taken) == candidate # cor /\ ~Contains(taken, candidate)

\* Sampling with one attempt too many: tries <= 30
SamplingOneMore(taken, t) == Len(taken) < DistractorCount /\ t <= MaxTries

\* len(distractors) < 3 and tries < 30
Sampling(taken, t) == Len(taken) < DistractorCount /\ t < MaxTries

\* distractors[:3] + [correct]
MakeOptions(taken, cor) == Take(taken, DistractorCount) \o << cor >>

\* lines 150-154, and line 170: the head of `for i in range(3)` for i = n.  Inside
\* the range the body starts: correct, distractors and tries are set.  Past it
\* the function returns mcqs, and its other locals go with its frame.
LoopHead(p, n) ==
    IF n >= QuestionCount
    THEN /\ pc' = "done"
         /\ i' = n
         /\ pool' = << >> /\ all_terms' = << >>
         /\ correct' = << >> /\ distractors' = << >> /\ tries' = 0
         /\ UNCHANGED error
    ELSE IF Len(p) = 0
    THEN /\ pc' = "raised"
         /\ error' = "ZeroDivisionError"
         /\ i' = n
         /\ UNCHANGED << correct, distractors, tries >>
    ELSE /\ pc' = "while"
         /\ i' = n
         /\ correct' = CorrectFor(p, n)
         /\ distractors' = << >>
         /\ tries' = 0
         /\ UNCHANGED error

\* lines 143-148: the pool, the distractor universe and its shuffle; then the
\* loop is entered with i = 0
McqBegin ==
    /\ pc = "mcq_begin"
    /\ mcqs' = << >>
    /\ IF QuestionCount > 0
       THEN /\ pool' = MakePool(keywords)
            /\ \E shuffled \in ShuffleOutcomes(AllTerms(MakePool(keywords)), "terms") :
                 all_terms' = shuffled
       ELSE TRUE
    /\ LoopHead(MakePool(keywords), 0)
    /\ UNCHANGED << remoteVars, entry, explore, textVars, keywords >>

\* lines 155-159: one pass of the sampling loop
WhileStep ==
    /\ pc = "while"
    /\ Sampling(distractors, tries)
    /\ IF Len(all_terms) = 0
       THEN /\ pc' = "raised"
            /\ error' = "IndexError"
            /\ UNCHANGED << distractors, tries >>
       ELSE /\ \E candidate \in ChoiceOutcomes(all_terms, correct, distractors,
                                               QuestionSite[i + 1]) :
                 distractors' = IF Accepts(candidate, correct, distractors)
                                THEN Append(distractors, candidate)
                                ELSE distractors
            /\ tries' = tries + 1
            /\ UNCHANGED << pc, error >>
    /\ UNCHANGED << remoteVars, entry, explore, textVars, keywords, pool, all_terms, i, correct, mcqs >>

\* lines 161-168: the options, their shuffle, the index of the correct one, the
\* question appended; then the loop goes on with i + 1
Emit ==
    /\ pc = "while"
    /\ ~Sampling(distractors, tries)
    /\ \E options \in ShuffleOutcomes(MakeOptions(distractors, correct),
                                      QuestionSite[i + 1]) :
         IF IndexOf(options, correct) < 0
         THEN /\ pc' = "raised"
              /\ error' = "ValueError"
              /\ UNCHANGED << mcqs, i, pool, all_terms, correct, distractors, tries >>
         ELSE /\ mcqs' = Append(mcqs, [correct |-> correct,
                                       options |-> options,
                                       correct_index |-> IndexOf(options, correct)])
              /\ IF i + 1 < QuestionCount
                 THEN UNCHANGED << pool, all_terms >>
                 ELSE TRUE
              /\ LoopHead(pool, i + 1)
    /\ UNCHANGED << remoteVars, entry, explore, textVars, keywords >>



(***************************************************************************)
(* QuizGenerator (src/quiz_generator.py)                                   *)
(***************************************************************************)

\* len(content.strip()) < 50
MinContentLen == 50

\* A JSON value as far as the code looks at it: its type and, for a list or a
\* string, its length.
JsonValue(t, n) == [t |-> t, n |-> n]

EmptyList == JsonValue("list", 0)

NoValue == JsonValue("none", 0)

\* the values the model may put under the key asked for
ReplyValues ==
    { JsonValue("list", n) : n \in 0..MaxItems } \cup
    { JsonValue("null", 0), JsonValue("string", 0), JsonValue("string", 1) }

\* What self.client.chat.completions.create(...) may come back with: an
\* exception of the client (the credential is refused), a message without
\* content, content that is no JSON, JSON that is no object, an object without
\* the key, an object with a value under the key.
NoReply == [kind |-> "none", value |-> NoValue]

Replies ==
    { [kind |-> k, value |-> NoValue] :
        k \in { "auth_error", "no_content", "malformed", "not_object", "no_key" } } \cup
    { [kind |-> "object", value |-> v] : v \in ReplyValues }

\* bool(v)
Truthy(v) == v.t \in { "list", "string" } /\ v.n > 0

\* not content or len(content.strip()) < 50
TooShort(c) == c = << >> \/ Len(Strip(c)) < MinContentLen

\* lines 71-94: what the body of generate_assignments' try raises, "" for nothing
AssignmentsRaises(r) ==
    IF r.kind = "auth_error" THEN "AuthenticationError"
    ELSE IF r.kind = "no_content" THEN "ValueError: Received empty response from OpenAI"
    ELSE IF r.kind = "malformed" THEN "JSONDecodeError"
    ELSE IF r.kind = "not_object" THEN "AttributeError"
    ELSE ""

\* lines 137-157: what the body of generate_quiz's try raises, "" for nothing;
\* content that is None goes to json.loads unchecked
QuizRaises(r) ==
    IF r.kind = "auth_error" THEN "AuthenticationError"
    ELSE IF r.kind = "no_content" THEN "TypeError"
    ELSE IF r.kind = "malformed" THEN "JSONDecodeError"
    ELSE IF r.kind = "not_object" THEN "AttributeError"
    ELSE ""

\* result.get(key, [])
GetOrEmpty(r) == IF r.kind = "object" THEN r.value ELSE EmptyList

\* lines 71-94: try: ... return result.get('assignments', [])
\*              except Exception: print(...); return []
AssignmentsReturn(r) == IF AssignmentsRaises(r) # "" THEN EmptyList ELSE GetOrEmpty(r)

\* lines 137-157: the same for generate_quiz
QuizReturn(r) == IF QuizRaises(r) # "" THEN EmptyList ELSE GetOrEmpty(r)

\* Incomplete with `and` for `or`
IncompleteBoth(a, q) == ~Truthy(a) /\ ~Truthy(q)

\* line 172: not assignments or not quiz
Incomplete(a, q) == ~Truthy(a) \/ ~Truthy(q)

\* lines 8-14: QuizGenerator().  api_key is what os.getenv returned for the name
\* line 10 looks up, "" standing for None and for the empty string.
Construct ==
    /\ pc = "new"
    /\ IF api_key = ""
       THEN /\ pc' = "raised"
            /\ error' = "ValueError: OPENAI_API_KEY environment variable is required"
       ELSE /\ pc' = IF entry = "generate_educational_content" THEN "validate"
                     ELSE IF entry = "generate_assignments" THEN "assignments"
                     ELSE "quiz"
            /\ UNCHANGED error
    /\ UNCHANGED << entry, appVars, remoteVars >>

\* lines 161-166: the length check of generate_educational_content
Validate ==
    /\ pc = "validate"
    /\ IF TooShort(content)
       THEN /\ pc' = "raised"
            /\ error' = "ValueError: Content is too short"
       ELSE /\ pc' = "assignments"
            /\ UNCHANGED error
    /\ UNCHANGED << entry, appVars, remoteVars >>

\* lines 41-94: a call of generate_assignments (line 169 in
\* generate_educational_content)
CallAssignments ==
    /\ pc = "assignments"
    /\ \E r \in Replies :
         /\ reply' = r
         /\ assignments' = AssignmentsReturn(r)
         /\ caught' = IF AssignmentsRaises(r) # ""
                      THEN Append(caught, AssignmentsRaises(r)) ELSE caught
    /\ calls' = calls + 1
    /\ pc' = IF entry = "generate_assignments" THEN "done" ELSE "quiz"
    /\ UNCHANGED << entry, appVars, api_key, content, quiz, error >>

\* lines 96-157: a call of generate_quiz (line 170 in generate_educational_content)
CallQuiz ==
    /\ pc = "quiz"
    /\ \E r \in Replies :
         /\ reply' = r
         /\ quiz' = QuizReturn(r)
         /\ caught' = IF QuizRaises(r) # ""
                      THEN Append(caught, QuizRaises(r)) ELSE caught
    /\ calls' = calls + 1
    /\ pc' = IF entry = "generate_quiz" THEN "done" ELSE "check"
    /\ UNCHANGED << entry, appVars, api_key, content, assignments, error >>

\* lines 172-184: the completeness check, the result or the exception raised on
\* to the caller
Finish ==
    /\ pc = "check"
    /\ IF Incomplete(assignments, quiz)
       THEN /\ pc' = "raised"
            /\ error' = "Exception: Failed to generate complete educational content"
       ELSE /\ pc' = "done"
            /\ UNCHANGED error
    /\ UNCHANGED << entry, appVars, remoteVars >>

\* the contents handed to generate_educational_content and the generators:
\* n characters between blanks
Contents ==
    { Rep(<< " " >>, l) \o Rep(<< "x" >>, n) \o Rep(<< " " >>, r) :
        l \in 0..MaxPad, r \in 0..MaxPad,
        n \in { 0, MinContentLen - 1, MinContentLen } }

\* a caller builds a QuizGenerator and calls one of its generators
RemoteInit ==
    /\ entry \in { "generate_educational_content", "generate_assignments", "generate_quiz" }
    /\ pc = "new"
    /\ api_key \in { "", "key" }
    /\ content \in Contents
    /\ reply = NoReply /\ calls = 0
    /\ assignments = NoValue /\ quiz = NoValue /\ caught = << >>
    /\ explore = "terms"
    /\ text = << >> /\ top_n = DefaultTopN
    /\ sentences = << >> /\ keywords = << >>
    /\ words = << >> /\ prompts = << >>
    /\ pool = << >> /\ all_terms = << >> /\ i = 0 /\ correct = << >>
    /\ distractors = << >> /\ tries = 0 /\ mcqs = << >>
    /\ error = ""

RemoteNext == Construct \/ Validate \/ CallAssignments \/ CallQuiz \/ Finish

SpecRemote == RemoteInit /\ [][RemoteNext]_vars

(***************************************************************************)
(* The calls                                                               *)
(***************************************************************************)

\* line 201: sentences = split_sentences(text)
SplitSentences ==
    /\ pc = "split"
    /\ sentences' = split_sentences(text)
    /\ pc' = "extract"
    /\ UNCHANGED << remoteVars, entry, explore, text, top_n, words, keywords, prompts, mcqVars, error >>

\* lines 78-82: a call of extract_keywords (line 202 in generate_from_text)
ExtractKeywords ==
    /\ pc = "extract"
    /\ words' = WordsOf(text)
    /\ keywords' = extract_keywords(text, top_n)
    /\ pc' = IF entry = "extract_keywords" THEN "done" ELSE "prompts"
    /\ UNCHANGED << remoteVars, entry, explore, text, top_n, sentences, prompts, mcqVars, error >>

\* lines 99-129: a call of make_assignment_prompts (line 203 in generate_from_text)
MakePrompts ==
    /\ pc = "prompts"
    /\ prompts' = make_assignment_prompts(sentences, keywords)
    /\ pc' = IF entry = "make_assignment_prompts" THEN "done" ELSE "mcq_begin"
    /\ UNCHANGED << remoteVars, entry, explore, text, top_n, words, sentences, keywords, mcqVars, error >>

\* no call of QuizGenerator is under way
RemoteIdle ==
    /\ api_key = "" /\ content = << >> /\ reply = NoReply /\ calls = 0
    /\ assignments = NoValue /\ quiz = NoValue /\ caught = << >>

\* the locals of the functions of app.py before any of them ran
Idle ==
    /\ words = << >> /\ prompts = << >>
    /\ pool = << >> /\ all_terms = << >> /\ i = 0 /\ correct = << >>
    /\ distractors = << >> /\ tries = 0 /\ mcqs = << >>
    /\ error = ""
    /\ RemoteIdle

\* a direct call extract_keywords(text, top_n)
KeywordsInit ==
    /\ entry = "extract_keywords"
    /\ pc = "extract"
    /\ explore = "terms"
    /\ text \in Texts
    /\ top_n \in TopNs
    /\ sentences = << >> /\ keywords = << >>
    /\ Idle

\* a direct call generate_mcqs(keywords)
McqInit ==
    /\ entry = "generate_mcqs"
    /\ pc = "mcq_begin"
    /\ keywords \in KeywordSeqs
    /\ explore \in ExploreModes(keywords)
    /\ text = << >> /\ top_n = DefaultTopN
    /\ sentences = << >>
    /\ Idle

McqNext == McqBegin \/ WhileStep \/ Emit

SpecMcq == McqInit /\ [][McqNext]_vars

SpecKeywords == KeywordsInit /\ [][ExtractKeywords]_vars

\* a direct call make_assignment_prompts(sentences, keywords)
PromptsInit ==
    /\ entry = "make_assignment_prompts"
    /\ pc = "prompts"
    /\ explore = "terms"
    /\ text = << >> /\ top_n = DefaultTopN
    /\ sentences \in SentenceSeqs
    /\ keywords \in KeywordSeqs
    /\ Idle

SpecPrompts == PromptsInit /\ [][MakePrompts]_vars

\* a call generate_from_text(text)
Init ==
    /\ entry = "generate_from_text"
    /\ pc = "split"
    /\ explore \in { "terms", "q0", "q1", "q2" }
    /\ text \in Documents
    /\ top_n = DefaultTopN
    /\ sentences = << >> /\ keywords = << >>
    /\ Idle

Next == SplitSentences \/ ExtractKeywords \/ MakePrompts \/ McqBegin \/ WhileStep \/ Emit

Spec == Init /\ [][Next]_vars

(***************************************************************************)
(* Claims about generate_mcqs                                              *)
(***************************************************************************)

\* how often x occurs in s
Count(s, x) == Cardinality({ k \in 1..Len(s) : s[k] = x })

NoDuplicates(s) == \A a, b \in 1..Len(s) : s[a] = s[b] => a = b

\* the answer question number n (counted from 0) is meant to have
IntendedAnswer(kw, n) ==
    IF kw = << >> THEN FallbackPool[(n % Len(FallbackPool)) + 1]
    ELSE kw[(n % Len(kw)) + 1]

\* C2: in every question produced, the recorded correct index is a position of
\* the options list, the option there is the intended answer pool[i mod len(pool)],
\* and that answer occurs exactly once among the options.
C2_CorrectIndex ==
    \A n \in 1..Len(mcqs) :
        LET q == mcqs[n]
        IN  /\ q.correct_index \in 0..(Len(q.options) - 1)
            /\ q.options[q.correct_index + 1] = IntendedAnswer(keywords, n - 1)
            /\ Count(q.options, IntendedAnswer(keywords, n - 1)) = 1

\* a finished call on two keywords whose second question has four options with
\* the correct one in the third place
C2_Witness ==
    /\ pc = "done" /\ Len(mcqs) = QuestionCount
    /\ keywords = << WCat, WDog >>
    /\ Len(mcqs[2].options) = 4
    /\ mcqs[2].correct_index = 2
    /\ mcqs[2].options[3] = WDog

\* C3: no question's option list holds the same string twice, and none has more
\* than 4 entries.
C3_NoDuplicateOptions ==
    \A n \in 1..Len(mcqs) :
        /\ NoDuplicates(mcqs[n].options)
        /\ Len(mcqs[n].options) <= DistractorCount + 1

\* a question drawn from a universe in which "cats" is both a keyword and the
\* plural of one, with all four options present
C3_Witness ==
    /\ keywords = << WCat, WCats >>
    /\ Len(mcqs) >= 1
    /\ Len(mcqs[1].options) = 3
    /\ Contains(mcqs[1].options, WCats)
    /\ Contains(mcqs[1].options, Plural(WCats))

\* C4: with no keywords the fallback pool is used and each question has exactly
\* 4 options, whatever the random draws.
C4_FallbackFourOptions ==
    keywords = << >> =>
        /\ pc = "while" => pool = FallbackPool
        /\ \A n \in 1..Len(mcqs) : Len(mcqs[n].options) = DistractorCount + 1

\* C8: with exactly one keyword t no error is raised, every question has t as
\* its correct answer, every option is t or t + "s", every question has 1 or 2
\* options, and the finished call returns 3 questions.
C8_SingleKeyword ==
    Len(keywords) = 1 =>
        /\ pc # "raised"
        /\ pc = "done" => Len(mcqs) = QuestionCount
        /\ \A n \in 1..Len(mcqs) :
             /\ mcqs[n].correct = keywords[1]
             /\ mcqs[n].options[mcqs[n].correct_index + 1] = keywords[1]
             /\ Range(mcqs[n].options) \subseteq { keywords[1], keywords[1] \o << "s" >> }
             /\ Len(mcqs[n].options) \in { 1, 2 }

\* a finished call on one keyword in which one question found the plural and
\* another used up its attempts on the keyword itself
C8_Witness ==
    /\ pc = "done" /\ Len(keywords) = 1 /\ Len(mcqs) = QuestionCount
    /\ Len(mcqs[1].options) = 2
    /\ Len(mcqs[2].options) = 1
    /\ mcqs[3].options = << keywords[1] \o << "s" >>, keywords[1] >>

\* the steps a call of generate_mcqs can still take, at most: one to begin, and
\* for each question left its attempts and its emission
Remaining ==
    IF pc = "mcq_begin" THEN QuestionCount * (MaxTries + 1) + 1
    ELSE IF pc = "while" THEN (QuestionCount - i) * (MaxTries + 1) - tries
    ELSE 0

\* C9: the sampling loop of a question makes at most 30 attempts and no step
\* raises; a call that has not returned can always take a step, and every step
\* lowers the bounded count of steps left, so the call ends; it ends with all 3
\* questions emitted, also those that fell short of 3 distractors.
C9_Terminates ==
    /\ [](/\ tries <= MaxTries
          /\ pc # "raised"
          /\ pc # "done" => ENABLED McqNext
          /\ pc = "done" => Len(mcqs) = QuestionCount)
    /\ [][Remaining' < Remaining /\ Remaining' >= 0]_vars

\* a finished call in which a question was emitted short of distractors although
\* the universe held enough of them: the attempts ran out
C9_Witness ==
    /\ pc = "done" /\ Len(mcqs) = QuestionCount
    /\ keywords = << WCat, WDog >>
    /\ Len(mcqs[1].options) = 2

(***************************************************************************)
(* Claims about the text functions and the pipeline                        *)
(***************************************************************************)

\* C1: for every document, the empty one and those without keywords or
\* sentences included, and whatever the random draws, generate_from_text raises
\* nothing and returns exactly 2 assignment prompts and exactly 3 questions.
C1_TwoPromptsThreeQuestions ==
    /\ pc # "raised"
    /\ pc = "done" => Len(prompts) = 2 /\ Len(mcqs) = 3
    /\ Len(prompts) <= 2 /\ Len(mcqs) <= 3

\* the empty document, returned with both fallback prompts and three questions
\* drawn from the fallback pool
C1_Witness ==
    /\ entry = "generate_from_text" /\ pc = "done" /\ text = << >>
    /\ sentences = << >> /\ keywords = << >>
    /\ Len(prompts) = 2 /\ prompts[1].args = << >> /\ prompts[2].args = << >>
    /\ Len(mcqs) = 3 /\ mcqs[3].correct = FallbackPool[3]

\* how often w occurs in the token stream
Freq(w) == Cardinality({ k \in 1..Len(words) : words[k] = w })

\* where w first occurs in the token stream
FirstAt(w) == CHOOSE k \in 1..Len(words) : words[k] = w /\ \A j \in 1..(k - 1) : words[j] # w

\* C5: extract_keywords returns at most top_n pairwise distinct keywords, each
\* lower case, at least 3 long and no stopword, in the order of falling
\* frequency, keywords of equal frequency in the order of their first
\* occurrence in the token stream; a word left out is no more frequent than any
\* word returned, and is left out only when top_n words were returned.
C5_Keywords ==
    (entry = "extract_keywords" /\ pc = "done") =>
        /\ Len(keywords) <= top_n
        /\ NoDuplicates(keywords)
        /\ \A k \in 1..Len(keywords) :
             /\ \A c \in Range(keywords[k]) : c \in LowerChars
             /\ Len(keywords[k]) >= 3
             /\ keywords[k] \notin Stopwords
             /\ Contains(words, keywords[k])
        /\ \A a, b \in 1..Len(keywords) :
             a < b => \/ Freq(keywords[a]) > Freq(keywords[b])
                      \/ /\ Freq(keywords[a]) = Freq(keywords[b])
                         /\ FirstAt(keywords[a]) < FirstAt(keywords[b])
        /\ \A w \in Range(words) \ (Stopwords \cup Range(keywords)) :
             /\ Len(keywords) = top_n
             /\ \A k \in 1..Len(keywords) :
                  \/ Freq(w) < Freq(keywords[k])
                  \/ Freq(w) = Freq(keywords[k]) /\ FirstAt(keywords[k]) < FirstAt(w)

\* a text in which "cat" is once capitalised and leads "emu" by frequency, "emu"
\* and "dog" tie, and top_n = 2 leaves "dog" out
C5_Witness ==
    /\ entry = "extract_keywords" /\ pc = "done" /\ top_n = 2
    /\ words = << <<"e","m","u">>, <<"c","a","t">>, <<"d","o","g">>, <<"c","a","t">> >>
    /\ Contains(text, "C")
    /\ keywords = << <<"c","a","t">>, <<"e","m","u">> >>

\* s is the start of t
IsPrefix(s, t) == Len(s) <= Len(t) /\ \A k \in 1..Len(s) : s[k] = t[k]

\* e is sent cut to at most 240 characters with the whitespace at its end removed
IsExcerptOf(e, sent) ==
    /\ IsPrefix(e, sent)
    /\ Len(e) <= ExcerptMax
    /\ e = << >> \/ ~IsSpace(e[Len(e)])
    /\ \A k \in (Len(e) + 1)..Len(sent) : k <= ExcerptMax => IsSpace(sent[k])

\* C6: prompt 1 embeds the longest sentence, the first of those of greatest
\* length, cut to at most 240 characters with trailing whitespace removed; with
\* no sentence it is the fixed template that embeds nothing.  Prompt 1 comes
\* first and the keyword prompt second.
C6_ExcerptPrompt ==
    (entry = "make_assignment_prompts" /\ pc = "done") =>
        /\ Len(prompts) = 2
        /\ prompts[2].template \in { CompareTemplate, ThemesTemplate }
        /\ prompts[2].template = CompareTemplate <=> Len(keywords) >= 2
        /\ Len(keywords) >= 2 => prompts[2].args = << keywords[1], keywords[2] >>
        /\ IF sentences = << >>
           THEN prompts[1] = [template |-> SummaryTemplate, args |-> << >>]
           ELSE /\ prompts[1].template = ExcerptTemplate
                /\ Len(prompts[1].args) = 1
                /\ \E j \in 1..Len(sentences) :
                     /\ \A k \in 1..Len(sentences) : Len(sentences[k]) <= Len(sentences[j])
                     /\ \A k \in 1..(j - 1) : Len(sentences[k]) < Len(sentences[j])
                     /\ IsExcerptOf(prompts[1].args[1], sentences[j])

\* two sentences of the same length above 240, the second listed first: the
\* excerpt is its first 239 characters, the space that follows them removed
C6_Witness ==
    /\ entry = "make_assignment_prompts" /\ pc = "done"
    /\ Len(sentences) = 2
    /\ Len(sentences[1]) = Len(sentences[2])
    /\ sentences[1] # sentences[2]
    /\ Len(sentences[1]) > ExcerptMax
    /\ IsSpace(sentences[1][ExcerptMax])
    /\ prompts[1].args = << SubSeq(sentences[1], 1, ExcerptMax - 1) >>

(***************************************************************************)
(* Claims about QuizGenerator                                              *)
(***************************************************************************)

\* the failures of a model call that are to reach the caller as errors
ReportedFailures == { "auth_error", "no_content", "malformed" }

\* C7: a refused credential, an empty model response and a malformed payload are
\* each reported to the caller of generate_assignments / generate_quiz as an
\* error; none ends in a normal return.
C7_FailuresReported ==
    (entry \in { "generate_assignments", "generate_quiz" } /\ pc = "done") =>
        reply.kind \notin ReportedFailures

\* the length of c without the whitespace at its two ends
TrimmedLen(c) ==
    LET solid == { k \in 1..Len(c) : ~IsSpace(c[k]) }
    IN  IF solid = { } THEN 0
        ELSE (CHOOSE k \in solid : \A j \in solid : j <= k)
             - (CHOOSE k \in solid : \A j \in solid : k <= j) + 1

\* a list with at least one item
NonEmptyList(v) == v.t = "list" /\ v.n > 0

\* C10: generate_educational_content rejects content that is empty or, trimmed,
\* shorter than 50 characters with an error before any model call; otherwise it
\* returns only with assignments and quiz both non-empty, and raises when one
\* of them is empty, whatever the two model calls came back with.
C10_AllOrNothing ==
    entry = "generate_educational_content" =>
        /\ TrimmedLen(content) < MinContentLen =>
             /\ calls = 0
             /\ pc \in { "new", "validate", "raised" }
        /\ pc = "done" =>
             /\ calls = 2
             /\ assignments.t # "none" /\ assignments.n > 0
             /\ quiz.t # "none" /\ quiz.n > 0
        /\ pc = "raised" => error # ""
        /\ (pc = "raised" /\ calls > 0) =>
             /\ calls = 2
             /\ ~NonEmptyList(assignments) \/ ~NonEmptyList(quiz)

\* content of 50 characters between blanks, assignments returned with two items,
\* the quiz call swallowing a malformed payload: the call raises
C10_Witness ==
    /\ entry = "generate_educational_content" /\ pc = "raised"
    /\ Len(content) = MinContentLen + 2 /\ TrimmedLen(content) = MinContentLen
    /\ calls = 2
    /\ assignments = JsonValue("list", 2)
    /\ quiz = EmptyList
    /\ caught = << "JSONDecodeError" >>
    /\ error = "Exception: Failed to generate complete educational content"

====
